---- MODULE Spec2Model ----
(***************************************************************************)
(* magicball-server (src/server.js): an Express relay with two POST        *)
(* endpoints, /magicball and /astro, that validate the request body, build *)
(* a system/user prompt pair, make one chat-completion call guarded by an  *)
(* abort timer, and answer { ok, text } or { ok: false, error }.           *)
(*                                                                         *)
(* Text is modelled as a sequence of one-character strings, so that        *)
(* trim(), toLowerCase(), startsWith() and the abort regular expression    *)
(* are computed character by character as the JavaScript does.             *)
(***************************************************************************)
EXTENDS Integers, Sequences, FiniteSets, TLC

(* ------------------------------ bounds -------------------------------- *)

\* number of inbound requests that may be in flight together
MaxReqs == 2
\* longest lang value enumerated
MaxLangLen == 2
\* longest question enumerated
MaxQuestionLen == 2
\* longest generated completion enumerated
MaxContentLen == 2

Reqs == 1..MaxReqs

(* --------------------------- JavaScript values ------------------------ *)

\* the value `undefined` (an absent property); no text equals it, because
\* every element of a text is a single character
Undefined == <<"undefined">>
\* the value `null`
Null == <<"null">>

RECURSIVE StrUpTo(_, _)
\* every text over the alphabet of length at most n
StrUpTo(alphabet, n) ==
    IF n = 0 THEN {<<>>}
    ELSE LET shorter == StrUpTo(alphabet, n - 1)
         IN  shorter \cup {Append(s, c) : s \in shorter, c \in alphabet}

\* JavaScript truthiness of a text-or-undefined value
Truthy(v) == v # Undefined /\ v # Null /\ v # <<>>

\* a || b
OrElse(a, b) == IF Truthy(a) THEN a ELSE b

UpperAlpha ==
    <<"A","B","C","D","E","F","G","H","I","J","K","L","M",
      "N","O","P","Q","R","S","T","U","V","W","X","Y","Z">>
LowerAlpha ==
    <<"a","b","c","d","e","f","g","h","i","j","k","l","m",
      "n","o","p","q","r","s","t","u","v","w","x","y","z">>

LowerChar(c) ==
    IF \E i \in 1..26 : UpperAlpha[i] = c
    THEN LowerAlpha[CHOOSE i \in 1..26 : UpperAlpha[i] = c]
    ELSE c

\* String.prototype.toLowerCase
toLowerCase(s) == [i \in 1..Len(s) |-> LowerChar(s[i])]

\* String.prototype.startsWith
startsWith(s, p) == Len(s) >= Len(p) /\ SubSeq(s, 1, Len(p)) = p

\* substring search, as an unanchored regular expression of literals does
Contains(s, p) ==
    \E i \in 0..(Len(s) - Len(p)) : SubSeq(s, i + 1, i + Len(p)) = p

IsWhiteSpace(c) == c \in {" ", "\t", "\n"}

\* String.prototype.trim
trim(s) ==
    LET keep == {i \in 1..Len(s) : ~IsWhiteSpace(s[i])}
    IN  IF keep = {} THEN <<>>
        ELSE SubSeq(s, CHOOSE i \in keep : \A k \in keep : i <= k,
                       CHOOSE i \in keep : \A k \in keep : i >= k)

\* String(v) for a text or undefined
String(v) ==
    IF v = Undefined THEN <<"u","n","d","e","f","i","n","e","d">> ELSE v

DigitChars == <<"0","1","2","3","4","5","6","7","8","9">>

RECURSIVE NumberToString(_)
\* decimal digits of a natural number, as string concatenation produces
NumberToString(n) ==
    IF n < 10 THEN <<DigitChars[n + 1]>>
    ELSE NumberToString(n \div 10) \o <<DigitChars[(n % 10) + 1]>>

(* --------------------------- fixed texts ------------------------------ *)

MsgMissingQuestion ==
    <<"M","i","s","s","i","n","g"," ","q","u","e","s","t","i","o","n">>
MsgMissingPlanets ==
    <<"M","i","s","s","i","n","g"," ","b","i","r","t","h","C","h","a","r","t",
      ".","p","l","a","n","e","t","s">>
MsgUpstreamTimeout ==
    <<"U","p","s","t","r","e","a","m"," ","t","i","m","e","o","u","t"," ","(",
      "O","p","e","n","A","I",")","."," ","T","r","y"," ","a","g","a","i","n",
      ".">>
MsgEmptyResponse ==
    <<"E","m","p","t","y"," ","O","p","e","n","A","I"," ","r","e","s","p","o",
      "n","s","e">>
MsgOpenAIHTTP ==
    <<"O","p","e","n","A","I"," ","H","T","T","P"," ">>
MsgMissingKey ==
    <<"M","i","s","s","i","n","g"," ","O","P","E","N","A","I","_","A","P","I",
      "_","K","E","Y">>
\* message of the AbortError that Node's fetch rejects with
MsgFetchAborted ==
    <<"T","h","i","s"," ","o","p","e","r","a","t","i","o","n"," ","w","a","s",
      " ","a","b","o","r","t","e","d">>
\* message of the TypeError that Node's fetch rejects with on a network error
MsgFetchFailed ==
    <<"f","e","t","c","h"," ","f","a","i","l","e","d">>
DefaultModel == <<"g","p","t","-","4","o">>

(* ----------------------------- pickLang ------------------------------- *)

\* pickLang without the toLowerCase() call
pickLangCaseSensitive(lang) ==
    LET L == String(OrElse(lang, <<>>))
    IN  IF startsWith(L, <<"e","n">>) THEN "en" ELSE "ro"

pickLang(lang) ==
    LET L == toLowerCase(String(OrElse(lang, <<>>)))
    IN  IF startsWith(L, <<"e","n">>) THEN "en" ELSE "ro"

\* the two fixed templates of each endpoint, named by persona and language
systemMagicBall(L) == IF L = "en" THEN "MagicBall-en" ELSE "MagicBall-ro"
systemAstroAI(L) == IF L = "en" THEN "AstroAI-en" ELSE "AstroAI-ro"

(* ------------------------- process environment ------------------------ *)

ApiKey == <<"s","k">>
ModelA == <<"m","A">>
ModelB == <<"m","B">>

\* process.env: the credential, the default chat model and an astro-specific
\* model override (set by the operator, read or not by the code)
Envs ==
    [OPENAI_API_KEY : {Undefined, ApiKey},
     OPENAI_MODEL_CHAT : {Undefined, <<>>, ModelA},
     OPENAI_MODEL_ASTRO : {Undefined, ModelB}]

(* ----------------------------- request bodies ------------------------- *)

Langs == StrUpTo({"e", "E", "n", "N", "r"}, MaxLangLen) \cup {Undefined}
Questions == StrUpTo({" ", "a"}, MaxQuestionLen) \cup {Undefined}

Planet1 ==
    [name |-> <<"S","u","n">>, sign |-> <<"L","e","o">>, degree |-> <<"1","2">>,
     longitude |-> Undefined, extra |-> <<"x">>]
Planet2 ==
    [name |-> <<"M","o","o","n">>, sign |-> Undefined, degree |-> <<"3">>,
     longitude |-> <<"9","3">>, extra |-> Undefined]

\* values that birthChart.planets may hold: absent, a string, a non-array
\* object, or an array
PlanetsValues ==
    {[type |-> "undefined", items |-> <<>>],
     [type |-> "string", items |-> <<>>],
     [type |-> "object", items |-> <<>>],
     [type |-> "array", items |-> <<>>],
     [type |-> "array", items |-> <<Planet1>>],
     [type |-> "array", items |-> <<Planet1, Planet2>>]}

NoPlanets == [type |-> "undefined", items |-> <<>>]
NoChart == [type |-> "undefined", planets |-> NoPlanets, houses |-> Undefined]

BirthCharts ==
    {NoChart, [type |-> "string", planets |-> NoPlanets, houses |-> Undefined]}
    \cup [type : {"object"}, planets : PlanetsValues, houses : {Undefined}]
    \cup {[type |-> "object", planets |-> [type |-> "array", items |-> <<Planet2>>],
           houses |-> <<"h">>]}

\* a request without a JSON body
NoBody(ep) ==
    [endpoint |-> ep, hasBody |-> FALSE, question |-> Undefined,
     lang |-> Undefined, birthChart |-> NoChart]

MagicballRequests ==
    [endpoint : {"magicball"}, hasBody : {TRUE}, question : Questions,
     lang : Langs, birthChart : {NoChart}]
    \cup {NoBody("magicball")}

AstroRequests ==
    [endpoint : {"astro"}, hasBody : {TRUE},
     question : {Undefined, <<" ">>, <<" ", "a">>},
     lang : Langs, birthChart : BirthCharts]
    \cup {NoBody("astro")}

Requests == MagicballRequests \cup AstroRequests

\* the few requests used when several are in flight together
FewRequests ==
    {[endpoint |-> "magicball", hasBody |-> TRUE, question |-> <<"a", " ">>,
      lang |-> <<"E", "N">>, birthChart |-> NoChart],
     [endpoint |-> "magicball", hasBody |-> TRUE, question |-> <<>>,
      lang |-> Undefined, birthChart |-> NoChart],
     [endpoint |-> "astro", hasBody |-> TRUE, question |-> Undefined,
      lang |-> <<"r">>,
      birthChart |-> [type |-> "object",
                      planets |-> [type |-> "array", items |-> <<Planet1>>],
                      houses |-> Undefined]]}

\* placeholder in a slot on which no request arrives
NoRequest == NoBody("none")

(* --------------------------- upstream replies ------------------------- *)

Statuses == {200, 429, 500}

ErrorMessages ==
    {Undefined, <<>>,
     <<"R","a","t","e">>,
     <<"J","o","b"," ","A","b","o","r","t","e","d">>,
     <<"A","b","o","r","t","E","r","r","o","r">>}

Contents == StrUpTo({" ", "y"}, MaxContentLen) \cup {Undefined}

\* the parsed reply body j: error.message and choices[0].message.content;
\* parsed = FALSE is a body that r.json() rejects
EmptyJson == [parsed |-> TRUE, errorMessage |-> Undefined, content |-> Undefined]
Bodies ==
    [parsed : {TRUE}, errorMessage : ErrorMessages, content : {Undefined}]
    \cup [parsed : {TRUE}, errorMessage : {Undefined}, content : Contents]
    \cup {[parsed |-> TRUE, errorMessage |-> <<"R","a","t","e">>, content |-> <<"y">>],
          [parsed |-> FALSE, errorMessage |-> Undefined, content |-> Undefined]}

\* every reply enumerated, and the few used when several requests are in
\* flight together
AllReplies == [statuses |-> Statuses, bodies |-> Bodies]
FewReplies ==
    [statuses |-> {200, 500},
     bodies |-> {[parsed |-> TRUE, errorMessage |-> Undefined, content |-> <<"y">>],
                 [parsed |-> TRUE, errorMessage |-> Undefined, content |-> <<" ">>],
                 [parsed |-> TRUE, errorMessage |-> <<"R","a","t","e">>,
                  content |-> Undefined]}]

NoReply == [stage |-> "nothing", status |-> 0, body |-> EmptyJson]

(* -------------------------------- state ------------------------------- *)

VARIABLES
    env,        \* process.env
    provider,   \* the statuses and bodies the provider may reply with
    req,        \* req[r]: the inbound request r (method, path and body)
    pc,         \* pc[r]: where the handler of r stands
    timer,      \* timer[r]: the setTimeout handle t of r's openaiChat call
    aborted,    \* aborted[r]: controller.signal.aborted of r's call
    sent,       \* sent[r]: the outbound fetch calls made for r, in order
    upstream,   \* upstream[r]: what the provider has replied to r so far
    resp        \* resp[r]: the responses written for r, in order

vars == <<env, provider, req, pc, timer, aborted, sent, upstream, resp>>

NoTimer == [armed |-> FALSE, ms |-> 0]

InitWith(es, replies, rs) ==
    /\ env \in es
    /\ provider = replies
    /\ req \in rs
    /\ pc = [r \in Reqs |-> IF req[r] = NoRequest THEN "none" ELSE "start"]
    /\ timer = [r \in Reqs |-> NoTimer]
    /\ aborted = [r \in Reqs |-> FALSE]
    /\ sent = [r \in Reqs |-> <<>>]
    /\ upstream = [r \in Reqs |-> NoReply]
    /\ resp = [r \in Reqs |-> <<>>]

\* one inbound request, drawn from every body enumerated
Init ==
    InitWith(Envs, AllReplies, {[r \in Reqs |-> IF r = 1 THEN q ELSE NoRequest] : q \in Requests})

\* several inbound requests at once
ConcInit ==
    InitWith({e \in Envs : e.OPENAI_MODEL_CHAT = Undefined
                           /\ e.OPENAI_MODEL_ASTRO = Undefined},
             FewReplies,
             [Reqs -> FewRequests])

(* ------------------------------ responses ----------------------------- *)

\* res.json({ ok: true, text })
Success(text) == [status |-> 200, ok |-> TRUE, text |-> text, error |-> Undefined]

\* res.status(code).json({ ok: false, error })
Failure(code, error) ==
    [status |-> code, ok |-> FALSE, text |-> Undefined, error |-> error]

\* /aborted|AbortError/i.test(msg)
isAbort(msg) ==
    \E low \in {toLowerCase(msg)} :
        \/ Contains(low, <<"a","b","o","r","t","e","d">>)
        \/ Contains(low, <<"a","b","o","r","t","e","r","r","o","r">>)

\* the catch block of both handlers, for an Error whose message is m
CatchResponse(m) ==
    \* String(e?.message || e), where String of an Error without message is "Error"
    LET msg == String(OrElse(m, <<"E","r","r","o","r">>))
    IN  Failure(500, IF isAbort(msg) THEN MsgUpstreamTimeout ELSE msg)

(* ------------------------------ openaiChat ---------------------------- *)

\* mustEnv without the check of the value
mustEnvUnchecked(v) == TRUE

mustEnv(v) == Truthy(v)

\* const usedModel = model || process.env.OPENAI_MODEL_CHAT || "gpt-4o"
usedModel(model) == OrElse(model, OrElse(env.OPENAI_MODEL_CHAT, DefaultModel))

Max(a, b) == IF a >= b THEN a ELSE b

\* a numeric argument that the caller leaves out
NoNumber == -1

\* Math.max(10_000, timeoutMs || 75_000)
TimerDelay(timeoutMs) ==
    Max(10000, IF timeoutMs \notin {NoNumber, 0} THEN timeoutMs ELSE 75000)

\* the body of the fetch call built from the arguments of openaiChat
FetchBody(args) ==
    [model |-> usedModel(args.model),
     system |-> args.system,
     user |-> args.user,
     max_tokens |-> IF args.maxTokens = NoNumber THEN 1800 ELSE args.maxTokens,
     temperature |-> IF args.temperature = NoNumber THEN 85 ELSE args.temperature]

IsOk(status) == status \in 200..299

\* openaiChat without the trim() of the generated message
CompleteUntrimmed(status, j) ==
    IF ~IsOk(status)
    THEN [threw |-> TRUE,
          value |-> OrElse(j.errorMessage, MsgOpenAIHTTP \o NumberToString(status))]
    ELSE LET text == String(OrElse(j.content, <<>>))
         IN  IF ~Truthy(text)
             THEN [threw |-> TRUE, value |-> MsgEmptyResponse]
             ELSE [threw |-> FALSE, value |-> text]

\* openaiChat from the parsed body j on: what it returns or throws
Complete(status, j) ==
    IF ~IsOk(status)
    THEN [threw |-> TRUE,
          value |-> OrElse(j.errorMessage, MsgOpenAIHTTP \o NumberToString(status))]
    ELSE LET text == trim(String(OrElse(j.content, <<>>)))
         IN  IF ~Truthy(text)
             THEN [threw |-> TRUE, value |-> MsgEmptyResponse]
             ELSE [threw |-> FALSE, value |-> text]

\* r.json().catch(() => ({}))
ParsedJson(body) == IF body.parsed THEN body ELSE EmptyJson

\* the handler's response to what openaiChat returned or threw
HandlerResponse(outcome) ==
    IF outcome.threw THEN CatchResponse(outcome.value) ELSE Success(outcome.value)

(* ------------------------------ handlers ------------------------------ *)

\* const { question, lang, birthChart } = req.body || {}
BodyOf(q) == IF q.hasBody THEN q ELSE NoBody(q.endpoint)

\* birthChart?.planets
PlanetsOf(birthChart) ==
    IF birthChart.type = "object" THEN birthChart.planets ELSE NoPlanets

\* birthChart?.houses
HousesOf(birthChart) ==
    IF birthChart.type = "object" THEN birthChart.houses ELSE Undefined

\* the validation of planets without the test of its length
PlanetsMissingLengthUnchecked(planets) == planets.type # "array"

\* !Array.isArray(planets) || planets.length === 0
PlanetsMissing(planets) == planets.type # "array" \/ Len(planets.items) = 0

\* planets.map(p => ({ name, sign, degree, longitude }))
ProjectPlanets(items) ==
    [i \in 1..Len(items) |->
        [name |-> items[i].name, sign |-> items[i].sign,
         degree |-> items[i].degree, longitude |-> items[i].longitude]]

\* the arguments /magicball passes to openaiChat
MagicballArgs(body) ==
    [system |-> systemMagicBall(pickLang(body.lang)),
     user |-> [template |-> "question", text |-> trim(String(body.question)),
               planets |-> <<>>, houses |-> Null],
     model |-> Undefined, maxTokens |-> 1400, temperature |-> 85,
     timeoutMs |-> 65000]

\* the arguments /astro passes to openaiChat; the user message is the
\* language's sentence around JSON.stringify(payload)
AstroArgs(body) ==
    LET L == pickLang(body.lang)
        focus == IF Truthy(body.question) THEN trim(String(body.question)) ELSE <<>>
    IN  [system |-> systemAstroAI(L),
         user |-> [template |-> IF L = "en" THEN "birthChart-en" ELSE "birthChart-ro",
                   text |-> OrElse(focus, Null),
                   planets |-> ProjectPlanets(PlanetsOf(body.birthChart).items),
                   houses |-> OrElse(HousesOf(body.birthChart), Null)],
         model |-> Undefined, maxTokens |-> 2200, temperature |-> 78,
         timeoutMs |-> 90000]

\* the validation of the body: if (!question) / if (!Array.isArray(planets) ...)
Valid(q) ==
    IF q.endpoint = "magicball"
    THEN Truthy(BodyOf(q).question)
    ELSE ~PlanetsMissing(PlanetsOf(BodyOf(q).birthChart))

\* the 400 response to a body that fails the validation
Rejection(q) ==
    IF q.endpoint = "magicball"
    THEN Failure(400, MsgMissingQuestion)
    ELSE Failure(400, MsgMissingPlanets)

ArgsOf(q) ==
    IF q.endpoint = "magicball" THEN MagicballArgs(BodyOf(q)) ELSE AstroArgs(BodyOf(q))

\* the end of the handler when openaiChat has no clearTimeout(t)
RespondTimerKept(r, response) ==
    /\ resp' = [resp EXCEPT ![r] = Append(@, response)]
    /\ pc' = [pc EXCEPT ![r] = "done"]
    /\ timer' = timer

\* what the handler answers when mustEnv("OPENAI_API_KEY") throws
MissingKeyResponse == CatchResponse(MsgMissingKey)

\* res...json(response) and the end of the handler; the finally block of
\* openaiChat has cleared the timer on the way
Respond(r, response) ==
    /\ resp' = [resp EXCEPT ![r] = Append(@, response)]
    /\ pc' = [pc EXCEPT ![r] = "done"]
    /\ timer' = [timer EXCEPT ![r].armed = FALSE]

\* the handler from the arrival of the request to its first await: the
\* validation, then openaiChat up to the fetch call
HandleRequest(r) ==
    /\ pc[r] = "start"
    /\ IF ~Valid(req[r])
       THEN /\ resp' = [resp EXCEPT ![r] = Append(@, Rejection(req[r]))]
            /\ pc' = [pc EXCEPT ![r] = "done"]
            /\ UNCHANGED <<timer, sent>>
       ELSE IF ~mustEnv(env.OPENAI_API_KEY)
       THEN /\ resp' = [resp EXCEPT ![r] = Append(@, MissingKeyResponse)]
            /\ pc' = [pc EXCEPT ![r] = "done"]
            /\ UNCHANGED <<timer, sent>>
       ELSE \E args \in {ArgsOf(req[r])} :
            /\ timer' = [timer EXCEPT ![r] =
                            [armed |-> TRUE, ms |-> TimerDelay(args.timeoutMs)]]
            /\ sent' = [sent EXCEPT ![r] = Append(@, FetchBody(args))]
            /\ pc' = [pc EXCEPT ![r] = "fetching"]
            /\ UNCHANGED resp
    /\ UNCHANGED <<env, provider, req, aborted, upstream>>

\* the provider's status line and headers arrive: fetch resolves and
\* r.json() starts reading the body
UpstreamHeaders(r) ==
    /\ pc[r] = "fetching"
    /\ \E status \in provider.statuses :
        upstream' = [upstream EXCEPT ![r] =
                        [stage |-> "headers", status |-> status, body |-> EmptyJson]]
    /\ pc' = [pc EXCEPT ![r] = "reading"]
    /\ UNCHANGED <<env, provider, req, timer, aborted, sent, resp>>

\* the connection fails: fetch rejects with a TypeError
FetchFails(r) ==
    /\ pc[r] = "fetching"
    /\ upstream' = [upstream EXCEPT ![r].stage = "failed"]
    /\ Respond(r, CatchResponse(MsgFetchFailed))
    /\ UNCHANGED <<env, provider, req, aborted, sent>>

\* the body arrives: r.json() settles and openaiChat runs to its end
BodyArrives(r) ==
    /\ pc[r] = "reading"
    /\ \E body \in provider.bodies :
        /\ upstream' = [upstream EXCEPT ![r].stage = "body", ![r].body = body]
        /\ Respond(r, HandlerResponse(Complete(upstream[r].status, ParsedJson(body))))
    /\ UNCHANGED <<env, provider, req, aborted, sent>>

\* what the handler answers when fetch rejects with the AbortError
AbortedFetchResponse == CatchResponse(MsgFetchAborted)

\* what the handler answers when r.json() rejects with the AbortError and
\* its catch yields {}, by the status already received
AbortedReadResponse ==
    [status \in Statuses |-> HandlerResponse(Complete(status, EmptyJson))]

\* the timer of r firing when one AbortController is shared by all calls
TimerFireSharedController(r) ==
    /\ timer[r].armed
    /\ aborted' = [s \in Reqs |-> TRUE]
    /\ IF pc[r] = "fetching"
       THEN Respond(r, AbortedFetchResponse)
       ELSE IF pc[r] = "reading"
       THEN Respond(r, AbortedReadResponse[upstream[r].status])
       ELSE /\ timer' = [timer EXCEPT ![r].armed = FALSE]
            /\ UNCHANGED <<pc, resp>>
    /\ UNCHANGED <<env, provider, req, sent, upstream>>

\* the abort timer of r fires: controller.abort(). A pending fetch rejects
\* with the AbortError; a pending r.json() rejects too, and its catch turns
\* the rejection into {}
TimerFire(r) ==
    /\ timer[r].armed
    /\ aborted' = [aborted EXCEPT ![r] = TRUE]
    /\ IF pc[r] = "fetching"
       THEN Respond(r, AbortedFetchResponse)
       ELSE IF pc[r] = "reading"
       THEN Respond(r, AbortedReadResponse[upstream[r].status])
       ELSE /\ timer' = [timer EXCEPT ![r].armed = FALSE]
            /\ UNCHANGED <<pc, resp>>
    /\ UNCHANGED <<env, provider, req, sent, upstream>>

Next ==
    \E r \in Reqs :
        \/ HandleRequest(r)
        \/ UpstreamHeaders(r)
        \/ FetchFails(r)
        \/ BodyArrives(r)
        \/ TimerFire(r)

Spec == Init /\ [][Next]_vars

ConcSpec == ConcInit /\ [][Next]_vars

\* timers that are armed fire, and the handler runs when the event loop
\* is free; the provider is under no obligation to reply
Fairness ==
    \A r \in Reqs : WF_vars(HandleRequest(r)) /\ WF_vars(TimerFire(r))

FairSpec == ConcInit /\ [][Next]_vars /\ Fairness

(* ------------------------------ properties ---------------------------- *)

Done(r) == pc[r] = "done"

\* the text of a question is absent, empty or only white space
BlankQuestion(q) ==
    \/ ~q.hasBody
    \/ q.question = Undefined
    \/ \A i \in 1..Len(q.question) : q.question[i] \in {" ", "\t", "\n"}

\* C1: when the abort timer fires before openaiChat has returned, during
\* the fetch or during the reading of the body, the response is status 500
\* with the fixed error "Upstream timeout (OpenAI). Try again.", and the
\* error never contains "aborted" or "AbortError".
C1_TimeoutIsNormalized ==
    \A r \in Reqs :
        (Done(r) /\ aborted[r]) =>
            /\ resp[r] = <<Failure(500, MsgUpstreamTimeout)>>
            /\ ~isAbort(resp[r][1].error)

\* C2: a /magicball request whose question is absent, empty or only white
\* space is answered 400 "Missing question" and makes no outbound call.
C2_BlankQuestionRejected ==
    \A r \in Reqs :
        (req[r].endpoint = "magicball" /\ BlankQuestion(req[r])) =>
            /\ sent[r] = <<>>
            /\ Done(r) => resp[r] = <<Failure(400, MsgMissingQuestion)>>

\* C3: a non-success upstream reply whose payload carries an error message
\* is answered 500 with exactly that message, whatever its text; without a
\* message the error is "OpenAI HTTP <status>".
C3_ErrorMessageRelayed ==
    \A r \in Reqs :
        (Done(r) /\ upstream[r].stage = "body" /\ ~IsOk(upstream[r].status)) =>
            LET body == upstream[r].body
                message == IF body.parsed /\ body.errorMessage \notin {Undefined, <<>>}
                           THEN body.errorMessage
                           ELSE MsgOpenAIHTTP \o NumberToString(upstream[r].status)
            IN  resp[r] = <<Failure(500, message)>>

\* the generated message is missing, empty or only white space
BlankContent(body) ==
    \/ ~body.parsed
    \/ body.content = Undefined
    \/ \A i \in 1..Len(body.content) : body.content[i] \in {" ", "\t", "\n"}

\* C4: a response with ok: true carries a non-empty text without leading or
\* trailing white space, and a success reply of the provider whose generated
\* message is missing, empty or only white space is answered 500, ok: false.
C4_SuccessTextNonEmpty ==
    \A r \in Reqs :
        /\ \A i \in 1..Len(resp[r]) :
              resp[r][i].ok =>
                  /\ resp[r][i].status = 200
                  /\ resp[r][i].text # Undefined
                  /\ Len(resp[r][i].text) > 0
                  /\ ~IsWhiteSpace(resp[r][i].text[1])
                  /\ ~IsWhiteSpace(resp[r][i].text[Len(resp[r][i].text)])
        /\ (Done(r) /\ upstream[r].stage = "body" /\ IsOk(upstream[r].status)
                /\ BlankContent(upstream[r].body)) =>
              /\ Len(resp[r]) = 1
              /\ ~resp[r][1].ok
              /\ resp[r][1].status = 500

C4_Witness ==
    \E r \in Reqs :
        /\ Done(r) /\ upstream[r].stage = "body" /\ upstream[r].status = 200
        /\ upstream[r].body.content = <<" ">>
        /\ resp[r] = <<Failure(500, MsgEmptyResponse)>>

\* C5 as stated: every request that passes validation makes exactly one
\* outbound call, never zero and never more than one.
C5_ExactlyOneCall ==
    \A r \in Reqs :
        /\ Len(sent[r]) <= 1
        /\ (Done(r) /\ Valid(req[r])) => Len(sent[r]) = 1

\* C5 (amended): a request makes at most one outbound call, and none after
\* its response; a request that passes validation makes exactly one when
\* OPENAI_API_KEY is set, and none when it is not set, in which case the
\* response is 500 "Missing OPENAI_API_KEY"; a reply, an error, an empty
\* completion or a timeout each end the request with that one call.
C5_OneCallWhenConfigured ==
    \A r \in Reqs :
        /\ Len(sent[r]) <= 1
        /\ (pc[r] \in {"fetching", "reading"}) => Len(sent[r]) = 1
        /\ Done(r) =>
              IF ~Valid(req[r]) THEN sent[r] = <<>>
              ELSE IF env.OPENAI_API_KEY \in {Undefined, <<>>}
              THEN sent[r] = <<>> /\ resp[r] = <<Failure(500, MsgMissingKey)>>
              ELSE Len(sent[r]) = 1

C5_Witness ==
    \E r \in Reqs :
        /\ Done(r) /\ Len(sent[r]) = 1 /\ Len(resp[r]) = 1
        /\ resp[r][1].status = 500
        /\ upstream[r].stage = "body"

\* C6: the model sent upstream is the explicit per-call value, else the
\* endpoint-specific environment override (the astro override for /astro),
\* else the default chat model of the environment, else "gpt-4o".
C6_ModelPrecedence ==
    \A r \in Reqs :
        \A i \in 1..Len(sent[r]) :
            sent[r][i].model =
                LET override == IF req[r].endpoint = "astro"
                                THEN env.OPENAI_MODEL_ASTRO ELSE Undefined
                IN  IF override \notin {Undefined, <<>>} THEN override
                    ELSE IF env.OPENAI_MODEL_CHAT \notin {Undefined, <<>>}
                    THEN env.OPENAI_MODEL_CHAT
                    ELSE DefaultModel

\* birthChart.planets is absent, not an array, or an empty array
NoPlanetList(q) ==
    \/ ~q.hasBody
    \/ q.birthChart.type # "object"
    \/ q.birthChart.planets.type # "array"
    \/ q.birthChart.planets.items = <<>>

\* C7: an /astro request whose birthChart.planets is absent, not a sequence
\* or empty (also with no birthChart or no body) is answered 400
\* "Missing birthChart.planets" and makes no outbound call.
C7_MissingPlanetsRejected ==
    \A r \in Reqs :
        (req[r].endpoint = "astro" /\ NoPlanetList(req[r])) =>
            /\ sent[r] = <<>>
            /\ pc[r] \in {"start", "done"}
            /\ Done(r) => resp[r] = <<Failure(400, MsgMissingPlanets)>>

C7_Witness ==
    \E r \in Reqs :
        /\ req[r].endpoint = "astro" /\ req[r].hasBody
        /\ req[r].birthChart.type = "object"
        /\ req[r].birthChart.planets = [type |-> "array", items |-> <<>>]
        /\ resp[r] = <<Failure(400, MsgMissingPlanets)>>

\* the lowercase form of lang starts with "en"
EnglishLang(q) ==
    /\ q.hasBody
    /\ q.lang # Undefined
    /\ Len(q.lang) >= 2
    /\ q.lang[1] \in {"e", "E"}
    /\ q.lang[2] \in {"n", "N"}

\* C8: on both endpoints the system prompt sent upstream is the English
\* template exactly when the lowercase form of lang starts with "en"; every
\* other lang, an absent one included, selects the Romanian template.
C8_LangSelectsTemplate ==
    \A r \in Reqs :
        \A i \in 1..Len(sent[r]) :
            sent[r][i].system =
                IF req[r].endpoint = "magicball"
                THEN IF EnglishLang(req[r]) THEN "MagicBall-en" ELSE "MagicBall-ro"
                ELSE IF EnglishLang(req[r]) THEN "AstroAI-en" ELSE "AstroAI-ro"

C8_Witness ==
    \E r \in Reqs :
        /\ req[r].lang = <<"E", "N">>
        /\ Len(sent[r]) = 1
        /\ sent[r][1].system \in {"MagicBall-en", "AstroAI-en"}

\* the timeout each endpoint configures
ConfiguredTimeout(q) == IF q.endpoint = "magicball" THEN 65000 ELSE 90000

C9_TimerSafety ==
    \A r \in Reqs :
        /\ Len(resp[r]) <= 1
        /\ Done(r) => (Len(resp[r]) = 1 /\ ~timer[r].armed)
        /\ (pc[r] \in {"fetching", "reading"}) =>
              /\ timer[r].armed
              /\ timer[r].ms >= 10000
              /\ timer[r].ms >= ConfiguredTimeout(req[r])
              /\ timer[r].ms \in {10000, ConfiguredTimeout(req[r])}

\* C9: every request that passes validation eventually has exactly one
\* response, whatever the provider does; while the call is pending its
\* abort timer is armed with max(10 s, configured timeout), and once the
\* call has completed the timer is cleared and never aborts it.
C9_EventuallyOneResponse ==
    /\ []C9_TimerSafety
    /\ [][\A r \in Reqs : (aborted'[r] # aborted[r]) =>
                             pc[r] \in {"fetching", "reading"}]_vars
    /\ \A r \in Reqs :
          (pc[r] = "start" /\ Valid(req[r])) ~> (Done(r) /\ Len(resp[r]) = 1)

C9_Witness ==
    \E r \in Reqs :
        /\ Done(r) /\ aborted[r] /\ ~timer[r].armed
        /\ upstream[r].stage = "nothing"
        /\ Len(resp[r]) = 1

\* the part of the state that belongs to request r
Own(r) == <<pc[r], timer[r], aborted[r], sent[r], upstream[r], resp[r]>>

\* C10: with several requests in flight, the abort or the failure of one
\* request leaves the call and the state of every other request untouched,
\* and requests with the same body, the same upstream reply and the same
\* timer outcome get the same response.
C10_RequestsIndependent ==
    /\ [][\A r \in Reqs :
            (Own(r)' # Own(r)) => \A s \in Reqs \ {r} : Own(s)' = Own(s)]_vars
    /\ [](\A r, s \in Reqs :
            (Done(r) /\ Done(s) /\ req[r] = req[s] /\ upstream[r] = upstream[s]
                /\ aborted[r] = aborted[s]) => resp[r] = resp[s])

C10_Witness ==
    \E r, s \in Reqs :
        /\ r # s
        /\ Done(r) /\ aborted[r] /\ resp[r] = <<Failure(500, MsgUpstreamTimeout)>>
        /\ pc[s] = "fetching" /\ ~aborted[s] /\ timer[s].armed

====
